---- MODULE Spec2Model ----
(***************************************************************************)
(* A model of the value-synthesis core (src/src/fnvalue.rs) and of the    *)
(* shard descriptor (src/src/shard.rs).                                    *)
(*                                                                         *)
(* A type node is a record tagged as syn::Type is; a candidate expression  *)
(* (a proc_macro2::TokenStream) is the sequence of its tokens; an          *)
(* Option<T> is the empty sequence (None) or a one-element sequence.       *)
(***************************************************************************)
EXTENDS Integers, Sequences, FiniteSets, TLC

VARIABLES return_type, error_exprs, result, pc,
          s, parsed, mutants, selected, shard_pc

vars == <<return_type, error_exprs, result, pc,
          s, parsed, mutants, selected, shard_pc>>

synth_vars == <<return_type, error_exprs, result, pc>>
shard_vars == <<s, parsed, mutants, selected, shard_pc>>

(***************************************************************************)
(* Bounds of the model.                                                    *)
(***************************************************************************)
\* Longest error-expression list.
MaxErrs == 2
\* Levels of single-argument wrapping put around the base types.
MaxDepth == 1
\* Largest tuple arity.
MaxArity == 2
\* Most bounds of an impl-trait type.
MaxBounds == 2
\* Longest shard descriptor string.
MaxStrLen == 4
\* Longest mutant list handed to Shard::select.
MaxMutants == 5

(***************************************************************************)
(* Generic sequence helpers (std iterators / itertools).                   *)
(***************************************************************************)
None == <<>>
Some(x) == <<x>>

Last(q) == q[Len(q)]

\* Iterator::flatten over a sequence of sequences.
RECURSIVE Flatten(_)
Flatten(qq) == IF qq = <<>> THEN <<>> ELSE Head(qq) \o Flatten(Tail(qq))

\* itertools::Itertools::cartesian_product: for each a, for each b.
CartesianProduct(a, b) ==
    Flatten([i \in 1..Len(a) |-> [j \in 1..Len(b) |-> <<a[i], b[j]>>]])

\* itertools::Itertools::multi_cartesian_product: the last iterator cycles
\* fastest; the product is empty when any factor is.
RECURSIVE MultiCartesianProduct(_)
MultiCartesianProduct(qq) ==
    IF qq = <<>> THEN << <<>> >>
    ELSE LET rest == MultiCartesianProduct(Tail(qq))
             first == Head(qq)
         IN  Flatten([i \in 1..Len(first) |->
                        [j \in 1..Len(rest) |-> <<first[i]>> \o rest[j]]])

(***************************************************************************)
(* syn's type tree.                                                        *)
(***************************************************************************)
NoArguments == [kind |-> "None", args |-> <<>>]
AngleBracketed(args) == [kind |-> "AngleBracketed", args |-> args]
Parenthesized == [kind |-> "Parenthesized", args |-> <<>>]

ArgType(t) == [kind |-> "Type", ty |-> t]
ArgLifetime == [kind |-> "Lifetime"]
ArgConst == [kind |-> "Const"]
ArgAssocType(id, t) == [kind |-> "AssocType", ident |-> id, ty |-> t]

Segment(id, arguments) == [ident |-> id, arguments |-> arguments]
Path(segments) == [leading_colon |-> FALSE, segments |-> segments]

TypePath(path) == [tag |-> "Path", path |-> path]
TypeArray(elem, len) == [tag |-> "Array", elem |-> elem, len |-> len]
TypeSlice(elem) == [tag |-> "Slice", elem |-> elem]
TypeReference(mutability, elem) ==
    [tag |-> "Reference", mutability |-> mutability, elem |-> elem]
TypeTuple(elems) == [tag |-> "Tuple", elems |-> elems]
TypeImplTrait(bounds) == [tag |-> "ImplTrait", bounds |-> bounds]
TypeNever == [tag |-> "Never"]
\* Any other syn::Type variant (a raw pointer, a bare fn, ...).
TypeOther == [tag |-> "Ptr"]

BoundTrait(path) == [kind |-> "Trait", path |-> path]
BoundLifetime == [kind |-> "Lifetime"]

\* A single-segment path without arguments, like `bool`.
Ident(id) == TypePath(Path(<<Segment(id, NoArguments)>>))
\* `id<args>`
Generic(id, args) == TypePath(Path(<<Segment(id, AngleBracketed(args))>>))
\* `prefix::id<args>`
Qualified(prefix, id, arguments) ==
    TypePath(Path(<<Segment(prefix, NoArguments), Segment(id, arguments)>>))

(***************************************************************************)
(* Predicates over paths.                                                  *)
(***************************************************************************)
\* syn::Path::is_ident
is_ident(path, ident) ==
    /\ ~path.leading_colon
    /\ Len(path.segments) = 1
    /\ path.segments[1].arguments.kind = "None"
    /\ path.segments[1].ident = ident

path_ends_with(path, ident) ==
    /\ path.segments # <<>>
    /\ Last(path.segments).ident = ident

path_is_float(path) == \E n \in {"f32", "f64"} : is_ident(path, n)

path_is_unsigned(path) ==
    \E n \in {"u8", "u16", "u32", "u64", "u128", "usize"} : is_ident(path, n)

path_is_signed(path) ==
    \E n \in {"i8", "i16", "i32", "i64", "i128", "isize"} : is_ident(path, n)

path_is_nonzero_signed(path) ==
    /\ path.segments # <<>>
    /\ Last(path.segments).ident \in
         {"NonZeroIsize", "NonZeroI8", "NonZeroI16", "NonZeroI32",
          "NonZeroI64", "NonZeroI128"}

path_is_nonzero_unsigned(path) ==
    /\ path.segments # <<>>
    /\ Last(path.segments).ident \in
         {"NonZeroUsize", "NonZeroU8", "NonZeroU16", "NonZeroU32",
          "NonZeroU64", "NonZeroU128"}

\* The arguments after the leading lifetimes.
RECURSIVE SkipLifetimes(_)
SkipLifetimes(args) ==
    IF args # <<>> /\ Head(args).kind = "Lifetime"
    THEN SkipLifetimes(Tail(args))
    ELSE args

\* The first type argument of a path ending in expected_ident, ignoring
\* lifetimes; None when anything else comes before a type.
match_first_type_arg(path, expected_ident) ==
    IF path.segments = <<>> THEN None
    ELSE LET last == Last(path.segments) IN
         IF last.ident = expected_ident /\ last.arguments.kind = "AngleBracketed"
         THEN LET rest == SkipLifetimes(last.arguments.args) IN
              IF rest # <<>> /\ Head(rest).kind = "Type"
              THEN Some(Head(rest).ty)
              ELSE None
         ELSE None

\* Exactly one generic argument, and it is a type.
SingleTypeArg(last) ==
    IF /\ last.arguments.kind = "AngleBracketed"
       /\ Len(last.arguments.args) = 1
       /\ last.arguments.args[1].kind = "Type"
    THEN Some([ident |-> last.ident, inner |-> last.arguments.args[1].ty])
    ELSE None

known_container(path) ==
    IF path.segments = <<>> THEN None
    ELSE LET last == Last(path.segments) IN
         IF last.ident \in {"Box", "Cell", "RefCell", "Arc", "Rc", "Mutex"}
         THEN SingleTypeArg(last)
         ELSE None

known_collection(path) ==
    IF path.segments = <<>> THEN None
    ELSE LET last == Last(path.segments) IN
         IF last.ident \notin
              {"BinaryHeap", "BTreeSet", "HashSet", "LinkedList", "VecDeque"}
         THEN None
         ELSE SingleTypeArg(last)

\* collect_tuple() is Some only for exactly two arguments.
known_map(path) ==
    IF path.segments = <<>> THEN None
    ELSE LET last == Last(path.segments) IN
         IF last.ident \notin {"BTreeMap", "HashMap"} THEN None
         ELSE IF /\ last.arguments.kind = "AngleBracketed"
                 /\ Len(last.arguments.args) = 2
                 /\ last.arguments.args[1].kind = "Type"
                 /\ last.arguments.args[2].kind = "Type"
              THEN Some([ident |-> last.ident,
                         key |-> last.arguments.args[1].ty,
                         value |-> last.arguments.args[2].ty])
              ELSE None

maybe_collection_or_container(path) ==
    IF path.segments = <<>> THEN None
    ELSE LET last == Last(path.segments) IN
         IF last.arguments.kind = "AngleBracketed"
         THEN LET type_args == SelectSeq(last.arguments.args,
                                         LAMBDA a : a.kind = "Type")
              IN  IF Len(type_args) = 1
                  THEN Some([ident |-> last.ident, inner |-> type_args[1].ty])
                  ELSE None
         ELSE None

\* Whether one bound is `...Iterator<Item = T, ...>`.
BoundIsIterator(bound) ==
    /\ bound.kind = "Trait"
    /\ bound.path.segments # <<>>
    /\ LET last_segment == Last(bound.path.segments) IN
       /\ last_segment.ident = "Iterator"
       /\ last_segment.arguments.kind = "AngleBracketed"
       /\ last_segment.arguments.args # <<>>
       /\ last_segment.arguments.args[1].kind = "AssocType"
       /\ last_segment.arguments.args[1].ident = "Item"

\* match_impl_iterator looking at the first bound only.
match_impl_iterator_first_only(bounds) ==
    IF bounds # <<>> /\ BoundIsIterator(Head(bounds))
    THEN Some(Last(Head(bounds).path.segments).arguments.args[1].ty)
    ELSE None

\* The item type of the first bound that is Iterator<Item = T>.
RECURSIVE match_impl_iterator(_)
match_impl_iterator(bounds) ==
    IF bounds = <<>> THEN None
    ELSE IF BoundIsIterator(Head(bounds))
         THEN Some(Last(Head(bounds).path.segments).arguments.args[1].ty)
         ELSE match_impl_iterator(Tail(bounds))

(***************************************************************************)
(* type_replacements: one operator per arm of the match.                   *)
(***************************************************************************)
RECURSIVE type_replacements(_, _)

\* quote! { pre #rep post } for each rep, in order.
Quoted(pre, reps, post) == [i \in 1..Len(reps) |-> pre \o reps[i] \o post]

\* quote! { "" }, quote! { "xyzzy" }
StrLiterals == << <<"\"\"">>, <<"\"xyzzy\"">> >>

\* ResultReplacements without the Ok(Default::default()) of a Result that
\* names no ok type.
ResultReplacementsNoDefault(path, errs) ==
    LET ok_type == match_first_type_arg(path, "Result")
        oks == IF ok_type # None
               THEN Quoted(<<"Ok", "(">>, type_replacements(ok_type[1], errs), <<")">>)
               ELSE <<>>
    IN  oks \o Quoted(<<"Err", "(">>, errs, <<")">>)

\* ResultReplacements with the error candidates put before the ok ones.
ResultReplacementsErrFirst(path, errs) ==
    LET ok_type == match_first_type_arg(path, "Result")
        oks == IF ok_type # None
               THEN Quoted(<<"Ok", "(">>, type_replacements(ok_type[1], errs), <<")">>)
               ELSE << <<"Ok", "(", "Default", "::", "default", "(", ")", ")">> >>
    IN  Quoted(<<"Err", "(">>, errs, <<")">>) \o oks

\* path_ends_with(path, "Result")
ResultReplacements(path, errs) ==
    LET ok_type == match_first_type_arg(path, "Result")
        oks == IF ok_type # None
               THEN Quoted(<<"Ok", "(">>, type_replacements(ok_type[1], errs), <<")">>)
               ELSE << <<"Ok", "(", "Default", "::", "default", "(", ")", ")">> >>
    IN  oks \o Quoted(<<"Err", "(">>, errs, <<")">>)

\* OptionReplacements with None put last.
OptionReplacementsNoneLast(some_type, errs) ==
    Quoted(<<"Some", "(">>, type_replacements(some_type, errs), <<")">>)
    \o << <<"None">> >>

\* OptionReplacements with the Result arm's chain of error candidates copied
\* into it.
OptionReplacementsChainingErrs(some_type, errs) ==
    << <<"None">> >>
    \o Quoted(<<"Some", "(">>, type_replacements(some_type, errs), <<")">>)
    \o Quoted(<<"Err", "(">>, errs, <<")">>)

\* match_first_type_arg(path, "Option")
OptionReplacements(some_type, errs) ==
    << <<"None">> >>
    \o Quoted(<<"Some", "(">>, type_replacements(some_type, errs), <<")">>)

\* match_first_type_arg(path, "Vec")
VecReplacements(element_type, errs) ==
    << <<"vec", "!", "[", "]">> >>
    \o Quoted(<<"vec", "!", "[">>, type_replacements(element_type, errs), <<"]">>)

\* match_first_type_arg(path, "Cow")
CowReplacements(borrowed_type, errs) ==
    LET reps == type_replacements(borrowed_type, errs) IN
    Flatten([i \in 1..Len(reps) |->
        << <<"Cow", "::", "Borrowed", "(">> \o reps[i] \o <<")">>,
           <<"Cow", "::", "Owned", "(">> \o reps[i] \o
               <<".", "to_owned", "(", ")", ")">> >>])

\* known_container(path)
ContainerReplacements(container_type, inner_type, errs) ==
    Quoted(<<container_type, "::", "new", "(">>,
           type_replacements(inner_type, errs), <<")">>)

\* known_collection(path)
CollectionReplacements(collection_type, inner_type, errs) ==
    << <<collection_type, "::", "new", "(", ")">> >>
    \o Quoted(<<collection_type, "::", "from_iter", "(", "[">>,
              type_replacements(inner_type, errs), <<"]", ")">>)

\* MapReplacements with the value as the outer loop of the product.
MapReplacementsValueOuter(collection_type, key_type, value_type, errs) ==
    LET key_reps == type_replacements(key_type, errs)
        val_reps == type_replacements(value_type, errs)
        pairs == CartesianProduct(val_reps, key_reps)
    IN  << <<collection_type, "::", "new", "(", ")">> >> \o
        [i \in 1..Len(pairs) |->
            <<collection_type, "::", "from_iter", "(", "[", "(">> \o pairs[i][2]
            \o <<",">> \o pairs[i][1] \o <<")", "]", ")">>]

\* known_map(path)
MapReplacements(collection_type, key_type, value_type, errs) ==
    LET key_reps == type_replacements(key_type, errs)
        val_reps == type_replacements(value_type, errs)
        pairs == CartesianProduct(key_reps, val_reps)
    IN  << <<collection_type, "::", "new", "(", ")">> >> \o
        [i \in 1..Len(pairs) |->
            <<collection_type, "::", "from_iter", "(", "[", "(">> \o pairs[i][1]
            \o <<",">> \o pairs[i][2] \o <<")", "]", ")">>]

\* maybe_collection_or_container(path)
HeuristicReplacements(collection_type, inner_type, errs) ==
    LET reps == type_replacements(inner_type, errs) IN
    << <<collection_type, "::", "new", "(", ")">> >> \o
    Flatten([i \in 1..Len(reps) |->
        << <<collection_type, "::", "from_iter", "(", "[">> \o reps[i] \o
               <<"]", ")">>,
           <<collection_type, "::", "new", "(">> \o reps[i] \o <<")">>,
           <<collection_type, "::", "from", "(">> \o reps[i] \o <<")">> >>])

\* trace!(...); vec![quote! { Default::default() }]
DefaultReplacements == << <<"Default", "::", "default", "(", ")">> >>

\* Type::Path
PathReplacements(path, errs) ==
    IF is_ident(path, "bool") THEN << <<"true">>, <<"false">> >>
    ELSE IF is_ident(path, "String")
    THEN << <<"String", "::", "new", "(", ")">>,
            <<"\"xyzzy\"", ".", "into", "(", ")">> >>
    ELSE IF is_ident(path, "str") THEN StrLiterals
    ELSE IF path_is_unsigned(path) THEN << <<"0">>, <<"1">> >>
    ELSE IF path_is_signed(path) THEN << <<"0">>, <<"1">>, <<"-", "1">> >>
    ELSE IF path_is_nonzero_signed(path) THEN << <<"1">>, <<"-", "1">> >>
    ELSE IF path_is_nonzero_unsigned(path) THEN << <<"1">> >>
    ELSE IF path_is_float(path)
    THEN << <<"0.0">>, <<"1.0">>, <<"-", "1.0">> >>
    ELSE IF path_ends_with(path, "Result") THEN ResultReplacements(path, errs)
    ELSE IF path_ends_with(path, "HttpResponse")
    THEN << <<"HttpResponse", "::", "Ok", "(", ")", ".", "finish", "(", ")">> >>
    ELSE IF match_first_type_arg(path, "Option") # None
    THEN OptionReplacements(match_first_type_arg(path, "Option")[1], errs)
    ELSE IF match_first_type_arg(path, "Vec") # None
    THEN VecReplacements(match_first_type_arg(path, "Vec")[1], errs)
    ELSE IF match_first_type_arg(path, "Cow") # None
    THEN CowReplacements(match_first_type_arg(path, "Cow")[1], errs)
    ELSE IF known_container(path) # None
    THEN LET c == known_container(path)[1]
         IN  ContainerReplacements(c.ident, c.inner, errs)
    ELSE IF known_collection(path) # None
    THEN LET c == known_collection(path)[1]
         IN  CollectionReplacements(c.ident, c.inner, errs)
    ELSE IF known_map(path) # None
    THEN LET m == known_map(path)[1]
         IN  MapReplacements(m.ident, m.key, m.value, errs)
    ELSE IF maybe_collection_or_container(path) # None
    THEN LET c == maybe_collection_or_container(path)[1]
         IN  HeuristicReplacements(c.ident, c.inner, errs)
    ELSE DefaultReplacements

\* The tokens of #( #reps ),*
RECURSIVE Separated(_)
Separated(reps) ==
    IF reps = <<>> THEN <<>>
    ELSE IF Len(reps) = 1 THEN Head(reps)
    ELSE Head(reps) \o <<",">> \o Separated(Tail(reps))

\* ArrayReplacements generating every combination of element candidates.
ArrayReplacementsCombinations(elem, len, errs) ==
    LET combos == MultiCartesianProduct(
                      [i \in 1..len |-> type_replacements(elem, errs)])
    IN  [i \in 1..Len(combos) |-> <<"[">> \o Separated(combos[i]) \o <<"]">>]

\* Type::Array
ArrayReplacements(elem, len, errs) ==
    Quoted(<<"[">>, type_replacements(elem, errs), <<";", ToString(len), "]">>)

\* Type::Slice, and a reference to a slice
SliceReplacements(elem, errs) ==
    << <<"Vec", "::", "leak", "(", "Vec", "::", "new", "(", ")", ")">> >>
    \o Quoted(<<"Vec", "::", "leak", "(", "vec", "!", "[">>,
              type_replacements(elem, errs), <<"]", ")">>)

\* ReferenceReplacements without the arm for &str.
ReferenceReplacementsNoStr(elem, errs) ==
    IF elem.tag = "Slice" THEN SliceReplacements(elem.elem, errs)
    ELSE Quoted(<<"&">>, type_replacements(elem, errs), <<>>)

\* Type::Reference with mutability: None
ReferenceReplacements(elem, errs) ==
    IF elem.tag = "Path" /\ is_ident(elem.path, "str") THEN StrLiterals
    ELSE IF elem.tag = "Slice" THEN SliceReplacements(elem.elem, errs)
    ELSE Quoted(<<"&">>, type_replacements(elem, errs), <<>>)

\* Type::Reference with mutability: Some(_)
MutReferenceReplacements(elem, errs) ==
    IF elem.tag = "Slice" THEN SliceReplacements(elem.elem, errs)
    ELSE Quoted(<<"Box", "::", "leak", "(", "Box", "::", "new", "(">>,
                type_replacements(elem, errs), <<")", ")">>)

\* The sequence q backwards.
Reversed(q) == [i \in 1..Len(q) |-> q[Len(q) + 1 - i]]

\* TupleReplacements with the first element varying fastest.
TupleReplacementsFirstFastest(elems, errs) ==
    IF elems = <<>> THEN << <<"(", ")">> >>
    ELSE LET combos == MultiCartesianProduct(Reversed(
                 [i \in 1..Len(elems) |-> type_replacements(elems[i], errs)]))
         IN  [i \in 1..Len(combos) |->
                 <<"(">> \o Separated(Reversed(combos[i])) \o <<")">>]

\* Type::Tuple
TupleReplacements(elems, errs) ==
    IF elems = <<>> THEN << <<"(", ")">> >>
    ELSE LET combos == MultiCartesianProduct(
                 [i \in 1..Len(elems) |-> type_replacements(elems[i], errs)])
         IN  [i \in 1..Len(combos) |-> <<"(">> \o Separated(combos[i]) \o <<")">>]

\* Type::ImplTrait
ImplTraitReplacements(bounds, errs) ==
    LET item_type == match_impl_iterator(bounds) IN
    IF item_type # None
    THEN << <<"::", "std", "::", "iter", "::", "empty", "(", ")">> >>
         \o Quoted(<<"::", "std", "::", "iter", "::", "once", "(">>,
                   type_replacements(item_type[1], errs), <<")">>)
    ELSE <<>>

type_replacements(type_, errs) ==
    CASE type_.tag = "Path" -> PathReplacements(type_.path, errs)
      [] type_.tag = "Array" -> ArrayReplacements(type_.elem, type_.len, errs)
      [] type_.tag = "Slice" -> SliceReplacements(type_.elem, errs)
      [] type_.tag = "Reference" /\ ~type_.mutability ->
             ReferenceReplacements(type_.elem, errs)
      [] type_.tag = "Reference" /\ type_.mutability ->
             MutReferenceReplacements(type_.elem, errs)
      [] type_.tag = "Tuple" -> TupleReplacements(type_.elems, errs)
      [] type_.tag = "ImplTrait" -> ImplTraitReplacements(type_.bounds, errs)
      [] type_.tag = "Never" -> <<>>
      [] OTHER -> DefaultReplacements

ReturnDefault == [kind |-> "Default"]
ReturnType(type_) == [kind |-> "Type", ty |-> type_]

return_type_replacements(rt, errs) ==
    IF rt.kind = "Default" THEN << <<"(", ")">> >>
    ELSE type_replacements(rt.ty, errs)

(***************************************************************************)
(* The inputs the model is run on.                                         *)
(***************************************************************************)
\* All sequences over S of length at most n.
SeqsUpTo(S, n) == UNION {[1..k -> S] : k \in 0..n}

\* Caller-supplied error expressions.
ErrExprs == { <<"my_error", "(", ")">>, <<"E", "::", "Bad">> }
ErrLists == SeqsUpTo(ErrExprs, MaxErrs)

\* Leaves with 2, 2, 2, 3, 0 and 1 candidates.
Atoms == {Ident("bool"), Ident("str"), Ident("u8"), Ident("i32"),
          TypeNever, TypeTuple(<<>>)}

Leaves ==
    Atoms \cup
    {Ident("String"), Ident("f64"), Ident("NonZeroU8"), Ident("HttpResponse"),
     Ident("Foo"), TypeOther,
     Qualified("num", "NonZeroI32", NoArguments),
     Qualified("fmt", "Result", NoArguments),
     Qualified("std", "bool", NoArguments),
     TypeImplTrait(<<BoundTrait(Path(<<Segment("Display", NoArguments)>>))>>)}

\* The argument lists a generic path is tried with.
ArgShapes(X, Y) ==
    { <<>>, <<ArgType(X)>>, <<ArgType(X), ArgType(Y)>>,
      <<ArgLifetime, ArgType(X)>>, <<ArgLifetime>>,
      <<ArgConst, ArgType(X)>>, <<ArgType(X), ArgConst>>,
      <<ArgLifetime, ArgType(X), ArgType(Y)>>,
      <<ArgType(X), ArgType(Y), ArgType(Ident("S"))>> }

Tuples == {TypeTuple(q) : q \in SeqsUpTo(Atoms, MaxArity) \ {<<>>}}

Arrays == {TypeArray(X, len) : X \in Atoms, len \in 0..2}

Results ==
    {Generic("Result", a) : a \in UNION {ArgShapes(X, Ident("E")) : X \in Atoms}}
    \cup {Qualified("io", "Result", AngleBracketed(<<ArgType(X)>>)) : X \in Atoms}
    \cup {TypePath(Path(<<Segment("Result", Parenthesized)>>))}

Maps ==
    {Generic(m, <<ArgType(K), ArgType(V)>>) :
        m \in {"HashMap", "BTreeMap"}, K \in Atoms, V \in Atoms}
    \cup {Generic(m, a) : m \in {"HashMap", "BTreeMap"},
                          a \in ArgShapes(Ident("bool"), Ident("i32"))}
    \cup {Qualified("collections", "HashMap",
                    AngleBracketed(<<ArgType(Ident("u8")), ArgType(Ident("i32"))>>))}

IteratorPath(prefixed, arguments) ==
    IF prefixed
    THEN Path(<<Segment("iter", NoArguments), Segment("Iterator", arguments)>>)
    ELSE Path(<<Segment("Iterator", arguments)>>)

Bounds ==
    {BoundLifetime,
     BoundTrait(Path(<<Segment("Send", NoArguments)>>)),
     BoundTrait(IteratorPath(FALSE, NoArguments)),
     BoundTrait(IteratorPath(FALSE, AngleBracketed(<<ArgType(Ident("bool"))>>))),
     BoundTrait(IteratorPath(FALSE,
         AngleBracketed(<<ArgAssocType("Other", Ident("bool"))>>))),
     BoundTrait(IteratorPath(FALSE,
         AngleBracketed(<<ArgLifetime, ArgAssocType("Item", Ident("bool"))>>))),
     BoundTrait(Path(<<Segment("IntoIterator",
         AngleBracketed(<<ArgAssocType("Item", Ident("bool"))>>))>>))}
    \cup {BoundTrait(IteratorPath(p, AngleBracketed(<<ArgAssocType("Item", X)>>))) :
            p \in BOOLEAN, X \in {Ident("bool"), Ident("i32"), TypeNever}}

ImplTraits == {TypeImplTrait(q) : q \in SeqsUpTo(Bounds, MaxBounds) \ {<<>>}}

\* One level of every single-argument shape around X.
Wrap(X) ==
    {Generic("Option", <<ArgType(X)>>),
     Generic("Vec", <<ArgType(X)>>),
     Generic("Cow", <<ArgLifetime, ArgType(X)>>),
     Generic("Box", <<ArgType(X)>>),
     Generic("HashSet", <<ArgType(X)>>),
     Generic("Wrapper", <<ArgType(X)>>),
     Generic("Result", <<ArgType(X), ArgType(Ident("E"))>>),
     TypeArray(X, 3),
     TypeSlice(X),
     TypeReference(FALSE, X),
     TypeReference(TRUE, X),
     TypeImplTrait(<<BoundTrait(IteratorPath(FALSE,
         AngleBracketed(<<ArgAssocType("Item", X)>>)))>>)}

\* The leaves the nested wrappers are put around.
NestAtoms == {Ident("bool"), Ident("str"), Ident("i32"), TypeNever}

RECURSIVE Nested(_, _)
Nested(S, d) == IF d = 0 THEN S ELSE S \cup UNION {Wrap(X) : X \in Nested(S, d - 1)}

Types ==
    Nested(NestAtoms, MaxDepth + 1)
    \cup UNION {Wrap(X) : X \in Leaves}
    \cup Leaves \cup Tuples \cup Arrays \cup Results \cup Maps \cup ImplTraits

ReturnTypes == {ReturnDefault} \cup {ReturnType(t) : t \in Types}

(***************************************************************************)
(* The synthesizer as a state machine: one call per behaviour.             *)
(***************************************************************************)
ShardIdle ==
    /\ s = <<>>
    /\ parsed = [ok |-> FALSE, err |-> ""]
    /\ mutants = <<>>
    /\ selected = <<>>
    /\ shard_pc = "idle"

Init ==
    /\ return_type \in ReturnTypes
    /\ error_exprs \in ErrLists
    /\ result = <<>>
    /\ pc = "ready"
    /\ ShardIdle

Synthesize ==
    /\ pc = "ready"
    /\ result' = return_type_replacements(return_type, error_exprs)
    /\ pc' = "done"
    /\ UNCHANGED <<return_type, error_exprs>>
    /\ UNCHANGED shard_vars

Next == Synthesize

Spec == Init /\ [][Next]_vars

(***************************************************************************)
(* Shard (src/src/shard.rs).  A string is the sequence of its characters.  *)
(***************************************************************************)
Digits == {"0", "1", "2", "3", "4", "5", "6", "7", "8", "9"}

DigitValue(c) ==
    CASE c = "0" -> 0 [] c = "1" -> 1 [] c = "2" -> 2 [] c = "3" -> 3
      [] c = "4" -> 4 [] c = "5" -> 5 [] c = "6" -> 6 [] c = "7" -> 7
      [] c = "8" -> 8 [] c = "9" -> 9

\* str::split_once: around the first occurrence of the delimiter.
split_once(str, delim) ==
    IF \E i \in 1..Len(str) : str[i] = delim
    THEN LET i == CHOOSE i \in 1..Len(str) :
                    /\ str[i] = delim
                    /\ \A j \in 1..(i - 1) : str[j] # delim
         IN  Some(<<SubSeq(str, 1, i - 1), SubSeq(str, i + 1, Len(str))>>)
    ELSE None

\* The accumulation of <usize as FromStr>::from_str: None on a character
\* that is no digit.  Its overflow check needs twenty digits to fail, which
\* no string of the lengths modelled here has.
RECURSIVE ParseDigits(_, _)
ParseDigits(digits, acc) ==
    IF digits = <<>> THEN Some(acc)
    ELSE IF Head(digits) \notin Digits THEN None
    ELSE ParseDigits(Tail(digits), acc * 10 + DigitValue(Head(digits)))

\* str::parse::<usize>: an optional leading +, then at least one digit.
parse_usize(str) ==
    IF str = <<>> THEN None
    ELSE IF Len(str) = 1 /\ Head(str) \in {"+", "-"} THEN None
    ELSE IF Head(str) = "+" THEN ParseDigits(Tail(str), 0)
    ELSE ParseDigits(str, 0)

Ok(shard) == [ok |-> TRUE, shard |-> shard]
Err(msg) == [ok |-> FALSE, err |-> msg]

\* from_str letting k equal n through.
from_str_k_up_to_n(str) ==
    LET parts == split_once(str, "/") IN
    IF parts = None THEN Err("shard must be k/n")
    ELSE LET k == parse_usize(parts[1][1]) IN
         IF k = None THEN Err("shard k")
         ELSE LET n == parse_usize(parts[1][2]) IN
              IF n = None THEN Err("shard n")
              ELSE IF ~(k[1] <= n[1]) THEN Err("shard k must be less than n")
              ELSE Ok([k |-> k[1], n |-> n[1]])

\* <Shard as FromStr>::from_str
from_str(str) ==
    LET parts == split_once(str, "/") IN
    IF parts = None THEN Err("shard must be k/n")
    ELSE LET k == parse_usize(parts[1][1]) IN
         IF k = None THEN Err("shard k")
         ELSE LET n == parse_usize(parts[1][2]) IN
              IF n = None THEN Err("shard n")
              ELSE IF ~(k[1] < n[1]) THEN Err("shard k must be less than n")
              ELSE Ok([k |-> k[1], n |-> n[1]])

\* Iterator::enumerate: zero-based positions.
Enumerate(q) == [j \in 1..Len(q) |-> <<j - 1, q[j]>>]

\* select counting positions from one.
select_one_based(shard, list) ==
    LET kept == SelectSeq(Enumerate(list),
                          LAMBDA im : (im[1] + 1) % shard.n = shard.k)
    IN  [j \in 1..Len(kept) |-> kept[j][2]]

\* Shard::select
select(shard, list) ==
    LET kept == SelectSeq(Enumerate(list), LAMBDA im : im[1] % shard.n = shard.k)
    IN  [j \in 1..Len(kept) |-> kept[j][2]]

Chars == {"0", "1", "2", "4", "5", "/", "+", "x"}
Strings == SeqsUpTo(Chars, MaxStrLen)

\* Lists of mutants: each mutant named by its position, or all alike; among
\* them the range 0..10 of the unit test.
MutantLists ==
    {[j \in 1..len |-> j - 1] : len \in (0..MaxMutants) \cup {10}}
    \cup {[j \in 1..len |-> 0] : len \in 1..MaxMutants}

SynthIdle ==
    /\ return_type = ReturnDefault
    /\ error_exprs = <<>>
    /\ result = <<>>
    /\ pc = "idle"

ShardInit ==
    /\ s \in Strings
    /\ parsed = Err("")
    /\ mutants = <<>>
    /\ selected = <<>>
    /\ shard_pc = "start"
    /\ SynthIdle

FromStr ==
    /\ shard_pc = "start"
    /\ parsed' = from_str(s)
    /\ shard_pc' = "parsed"
    /\ UNCHANGED <<s, mutants, selected>>
    /\ UNCHANGED synth_vars

Select ==
    /\ shard_pc = "parsed"
    /\ parsed.ok
    /\ \E list \in MutantLists :
          /\ mutants' = list
          /\ selected' = select(parsed.shard, list)
    /\ shard_pc' = "selected"
    /\ UNCHANGED <<s, parsed>>
    /\ UNCHANGED synth_vars

ShardNext == FromStr \/ Select

ShardSpec == ShardInit /\ [][ShardNext]_vars

(***************************************************************************)
(* Claims about type_replacements.                                         *)
(***************************************************************************)
\* The call has returned for a declared return type.
Returned == pc = "done" /\ return_type.kind = "Type"

\* The declared type, and its path's last segment.
Declared == return_type.ty
DeclaredLast == Last(Declared.path.segments)

\* The generic arguments of a segment (none unless angle-bracketed).
GenericArgs(segment) ==
    IF segment.arguments.kind = "AngleBracketed" THEN segment.arguments.args
    ELSE <<>>

\* Position of the first generic argument, lifetimes aside, when it is a
\* type; 0 when there is none.
FirstTypeArgIndex(args) ==
    IF \E i \in 1..Len(args) :
          /\ args[i].kind = "Type"
          /\ \A j \in 1..(i - 1) : args[j].kind = "Lifetime"
    THEN CHOOSE i \in 1..Len(args) :
          /\ args[i].kind = "Type"
          /\ \A j \in 1..(i - 1) : args[j].kind = "Lifetime"
    ELSE 0

IsResultType == Declared.tag = "Path" /\ DeclaredLast.ident = "Result"

\* C1: for a type whose last path segment is Result, the output is Ok(c) for
\* each candidate c of the first type argument, in order (a single
\* Ok(Default::default()) when there is no such argument), followed by Err(e)
\* for each supplied error expression e, in order; nothing is dropped,
\* duplicated or reordered.
C1_ResultOkThenErr ==
    (Returned /\ IsResultType) =>
        LET args == GenericArgs(DeclaredLast)
            at == FirstTypeArgIndex(args)
            oks == IF at # 0 THEN type_replacements(args[at].ty, error_exprs)
                   ELSE << <<"Default", "::", "default", "(", ")">> >>
        IN  /\ Len(result) = Len(oks) + Len(error_exprs)
            /\ \A i \in 1..Len(oks) :
                  result[i] = <<"Ok", "(">> \o oks[i] \o <<")">>
            /\ \A j \in 1..Len(error_exprs) :
                  result[Len(oks) + j] = <<"Err", "(">> \o error_exprs[j] \o <<")">>
            /\ (Declared = Generic("Result", <<ArgType(Ident("bool"))>>)
                /\ error_exprs = << <<"my_error", "(", ")">> >>)
               => result = << <<"Ok", "(", "true", ")">>,
                              <<"Ok", "(", "false", ")">>,
                              <<"Err", "(", "my_error", "(", ")", ")">> >>

\* A Result behind a lifetime, with three ok candidates and two distinct
\* error expressions, has been synthesized.
C1_Witness ==
    /\ Returned
    /\ Declared = Generic("Result", <<ArgLifetime, ArgType(Ident("i32"))>>)
    /\ Len(error_exprs) = 2
    /\ error_exprs[1] # error_exprs[2]
    /\ Len(result) = 5

\* The product of the lengths of the sequences q[from], ..., q[Len(q)].
RECURSIVE LenProduct(_, _)
LenProduct(q, from) ==
    IF from > Len(q) THEN 1 ELSE Len(q[from]) * LenProduct(q, from + 1)

IsTupleType == Declared.tag = "Tuple" /\ Declared.elems # <<>>

\* The candidate sets of the elements of the declared tuple.
ElemSets ==
    [i \in 1..Len(Declared.elems) |->
        type_replacements(Declared.elems[i], error_exprs)]

\* C2: for a tuple of k > 0 elements the output holds one tuple literal per
\* element of the cartesian product of the elements' candidate sets, the
\* earlier elements varying slower than the later ones; so it is empty when
\* any element has no candidate.
C2_TupleProduct ==
    (Returned /\ IsTupleType) =>
        LET k == Len(Declared.elems)
            pick(r, i) ==
                ElemSets[i][(((r - 1) \div LenProduct(ElemSets, i + 1))
                             % Len(ElemSets[i])) + 1]
        IN  /\ Len(result) = LenProduct(ElemSets, 1)
            /\ \A r \in 1..Len(result) :
                  result[r] =
                      <<"(">> \o Separated([i \in 1..k |-> pick(r, i)]) \o <<")">>
            /\ (\E i \in 1..k : ElemSets[i] = <<>>) => result = <<>>

\* A pair whose elements have three and two candidates has been synthesized.
C2_Witness ==
    /\ Returned
    /\ Declared = TypeTuple(<<Ident("i32"), Ident("bool")>>)
    /\ Len(result) = 6
    /\ result[2] = <<"(", "0", ",", "false", ")">>
    /\ result[3] = <<"(", "1", ",", "true", ")">>

IsArrayType == Declared.tag = "Array"

\* C3: for an array [X; N] the output has one candidate per candidate of X,
\* in order, the i-th repeating the i-th candidate of X N times; no candidate
\* holds two different element candidates.
C3_ArrayRepeats ==
    (Returned /\ IsArrayType) =>
        LET reps == type_replacements(Declared.elem, error_exprs) IN
        /\ Len(result) = Len(reps)
        /\ \A i \in 1..Len(reps) :
              result[i] = <<"[">> \o reps[i] \o <<";", ToString(Declared.len), "]">>
        /\ Declared = TypeArray(Ident("u8"), 3)
           => result = << <<"[", "0", ";", "3", "]">>, <<"[", "1", ";", "3", "]">> >>

\* An array over an element with three candidates has been synthesized.
C3_Witness ==
    /\ Returned
    /\ Declared = TypeArray(Ident("i32"), 3)
    /\ Len(result) = 3
    /\ result[3] = <<"[", "-", "1", ";", "3", "]">>

IsOptionType ==
    /\ Declared.tag = "Path"
    /\ DeclaredLast.ident = "Option"
    /\ Len(GenericArgs(DeclaredLast)) = 1
    /\ GenericArgs(DeclaredLast)[1].kind = "Type"

\* C5: for Option<X> the output is None followed by Some(c) for each
\* candidate c of X, in order; its length is 1 + |synth(X)| and it is never
\* empty.
C5_OptionNoneThenSome ==
    (Returned /\ IsOptionType) =>
        LET reps == type_replacements(GenericArgs(DeclaredLast)[1].ty, error_exprs)
        IN  /\ Len(result) = 1 + Len(reps)
            /\ result[1] = <<"None">>
            /\ \A i \in 1..Len(reps) :
                  result[i + 1] = <<"Some", "(">> \o reps[i] \o <<")">>
            /\ Declared = Generic("Option", <<ArgType(Ident("u8"))>>)
               => result = << <<"None">>, <<"Some", "(", "0", ")">>,
                              <<"Some", "(", "1", ")">> >>

\* An Option over a type with nested candidates has been synthesized.
C5_Witness ==
    /\ Returned
    /\ Declared = Generic("Option", <<ArgType(TypeReference(FALSE, Ident("i32")))>>)
    /\ result = << <<"None">>, <<"Some", "(", "&", "0", ")">>,
                   <<"Some", "(", "&", "1", ")">>,
                   <<"Some", "(", "&", "-", "1", ")">> >>

\* The type arguments among the generic arguments, in order.
TypeArgs(segment) == SelectSeq(GenericArgs(segment), LAMBDA a : a.kind = "Type")

IsMapNamed ==
    /\ Declared.tag = "Path"
    /\ DeclaredLast.ident \in {"BTreeMap", "HashMap"}

\* The output of the map rule for key type K and value type V: the empty map,
\* then one singleton per pair, the key varying slower than the value.
IsMapOutput(out, name, K, V) ==
    LET ks == type_replacements(K, error_exprs)
        vs == type_replacements(V, error_exprs)
    IN  /\ Len(out) = 1 + Len(ks) * Len(vs)
        /\ out[1] = <<name, "::", "new", "(", ")">>
        /\ \A i \in 1..Len(ks) : \A j \in 1..Len(vs) :
              out[1 + (i - 1) * Len(vs) + j] =
                  <<name, "::", "from_iter", "(", "[", "(">> \o ks[i] \o <<",">>
                  \o vs[j] \o <<")", "]", ")">>

\* C4 as stated: every type whose last path segment is BTreeMap or HashMap
\* and that has a key type K and a value type V (its first two type
\* arguments) gets the empty map followed by the |synth(K)| * |synth(V)|
\* singleton maps.
C4_AnyMapWithKeyAndValue ==
    (Returned /\ IsMapNamed /\ Len(TypeArgs(DeclaredLast)) >= 2) =>
        IsMapOutput(result, DeclaredLast.ident,
                    TypeArgs(DeclaredLast)[1].ty, TypeArgs(DeclaredLast)[2].ty)

\* C4, amended: a type whose last path segment is BTreeMap or HashMap with
\* exactly two generic arguments, both of them types K and V, gets the empty
\* map followed by the |synth(K)| * |synth(V)| singleton maps, the key varying
\* slower than the value.
C4_TwoArgumentMap ==
    (/\ Returned
     /\ IsMapNamed
     /\ Len(GenericArgs(DeclaredLast)) = 2
     /\ Len(TypeArgs(DeclaredLast)) = 2) =>
        IsMapOutput(result, DeclaredLast.ident,
                    TypeArgs(DeclaredLast)[1].ty, TypeArgs(DeclaredLast)[2].ty)

\* A map from a key with three candidates to a value with two has been
\* synthesized.
C4_Witness ==
    /\ Returned
    /\ Declared = Generic("BTreeMap", <<ArgType(Ident("i32")), ArgType(Ident("bool"))>>)
    /\ Len(result) = 7
    /\ result[3] = <<"BTreeMap", "::", "from_iter", "(", "[", "(", "0", ",",
                     "false", ")", "]", ")">>

\* Whether a bound is a trait bound named Iterator whose first generic
\* argument is the associated type Item.
IsIteratorItemBound(b) ==
    /\ b.kind = "Trait"
    /\ Last(b.path.segments).ident = "Iterator"
    /\ GenericArgs(Last(b.path.segments)) # <<>>
    /\ GenericArgs(Last(b.path.segments))[1].kind = "AssocType"
    /\ GenericArgs(Last(b.path.segments))[1].ident = "Item"

\* C8: the never type, and an impl-trait type without a bound
\* Iterator<Item = X>, get no candidate whatever the error list; an impl-trait
\* type with such a bound at any position gets ::std::iter::empty() followed
\* by ::std::iter::once(c) for each candidate c of X (the X of the first such
\* bound), in order.
C8_NeverAndImplTrait ==
    /\ (Returned /\ Declared.tag = "Never") => result = <<>>
    /\ (Returned /\ Declared.tag = "ImplTrait") =>
          LET bs == Declared.bounds
              hits == {i \in 1..Len(bs) : IsIteratorItemBound(bs[i])}
          IN  IF hits = {} THEN result = <<>>
              ELSE LET first == CHOOSE i \in hits : \A j \in hits : i <= j
                       X == GenericArgs(Last(bs[first].path.segments))[1].ty
                       reps == type_replacements(X, error_exprs)
                   IN  /\ Len(result) = 1 + Len(reps)
                       /\ result[1] = <<"::", "std", "::", "iter", "::", "empty",
                                        "(", ")">>
                       /\ \A i \in 1..Len(reps) :
                             result[i + 1] =
                                 <<"::", "std", "::", "iter", "::", "once", "(">>
                                 \o reps[i] \o <<")">>

\* An impl-trait type whose Iterator<Item = i32> bound is its second bound
\* has been synthesized, with error expressions supplied.
C8_Witness ==
    /\ Returned
    /\ Declared.tag = "ImplTrait"
    /\ Len(Declared.bounds) = 2
    /\ ~IsIteratorItemBound(Declared.bounds[1])
    /\ IsIteratorItemBound(Declared.bounds[2])
    /\ error_exprs # <<>>
    /\ Len(result) = 4

\* Whether a type tree holds a path whose last segment is Result.
RECURSIVE HasResultNode(_)
RECURSIVE PathHasResultNode(_)
PathHasResultNode(path) ==
    \/ Last(path.segments).ident = "Result"
    \/ \E i \in 1..Len(path.segments) :
          \E j \in 1..Len(GenericArgs(path.segments[i])) :
             LET a == GenericArgs(path.segments[i])[j] IN
             a.kind \in {"Type", "AssocType"} /\ HasResultNode(a.ty)

HasResultNode(t) ==
    CASE t.tag = "Path" -> PathHasResultNode(t.path)
      [] t.tag \in {"Array", "Slice", "Reference"} -> HasResultNode(t.elem)
      [] t.tag = "Tuple" -> \E i \in 1..Len(t.elems) : HasResultNode(t.elems[i])
      [] t.tag = "ImplTrait" ->
             \E i \in 1..Len(t.bounds) :
                t.bounds[i].kind = "Trait" /\ PathHasResultNode(t.bounds[i].path)
      [] OTHER -> FALSE

\* The output does not depend on the error list when no node is a Result.
ErrorListUnused ==
    (pc = "done" /\ (return_type.kind = "Type" => ~HasResultNode(Declared))) =>
        \A other \in ErrLists :
            return_type_replacements(return_type, other) = result

\* Every candidate of the form Err(...) wraps a supplied error expression.
ErrWrapsSupplied ==
    pc = "done" =>
        \A i \in 1..Len(result) :
            (Len(result[i]) >= 2 /\ result[i][1] = "Err" /\ result[i][2] = "(")
            => \E j \in 1..Len(error_exprs) :
                  result[i] = <<"Err", "(">> \o error_exprs[j] \o <<")">>

\* C9: the error list matters only under a Result: a type tree without a
\* node whose last path segment is Result gets the same output for any two
\* error lists; the call leaves the list as it was; and every Err(...)
\* candidate wraps an element of the list.
C9_ErrorListOnlyForResult ==
    /\ [](ErrorListUnused /\ ErrWrapsSupplied)
    /\ [][error_exprs' = error_exprs]_vars

\* A type without any Result node has been synthesized with two error
\* expressions supplied, none of which shows in the output.
C9_Witness ==
    /\ Returned
    /\ Declared = Generic("Option", <<ArgType(Generic("Vec", <<ArgType(Ident("bool"))>>))>>)
    /\ Len(error_exprs) = 2
    /\ Len(result) = 4

IsSharedReference == Declared.tag = "Reference" /\ ~Declared.mutability

\* What the reference rule gives apart from the string case: the slice rule
\* for a slice (as for &mut [E] and for [E]), otherwise &c for each candidate
\* c of X in order.
ReferenceRuleHolds ==
    LET X == Declared.elem IN
    IF X.tag = "Slice"
    THEN LET reps == type_replacements(X.elem, error_exprs) IN
         /\ Len(result) = 1 + Len(reps)
         /\ result[1] = <<"Vec", "::", "leak", "(", "Vec", "::", "new", "(", ")", ")">>
         /\ \A i \in 1..Len(reps) :
               result[i + 1] = <<"Vec", "::", "leak", "(", "vec", "!", "[">>
                               \o reps[i] \o <<"]", ")">>
         /\ result = type_replacements(TypeReference(TRUE, X), error_exprs)
         /\ result = type_replacements(X, error_exprs)
    ELSE LET reps == type_replacements(X, error_exprs) IN
         /\ Len(result) = Len(reps)
         /\ \A i \in 1..Len(reps) : result[i] = <<"&">> \o reps[i]

\* C10 as stated: &X for X the owned or the borrowed string leaf gets exactly
\* "" and "xyzzy", without a & on either; a slice gets the slice rule;
\* anything else gets &c for each candidate c of X.
C10_StringLeavesGetLiterals ==
    (Returned /\ IsSharedReference) =>
        IF Declared.elem \in {Ident("str"), Ident("String")}
        THEN result = << <<"\"\"">>, <<"\"xyzzy\"">> >>
        ELSE ReferenceRuleHolds

\* C10, amended: &str gets exactly "" and "xyzzy", without a & on either;
\* &[E] gets the slice rule's output, the same as &mut [E] and [E]; any other
\* &X, the owned String among them, gets &c for each candidate c of X in
\* order.
C10_StrGetsLiterals ==
    (Returned /\ IsSharedReference) =>
        IF Declared.elem = Ident("str")
        THEN result = << <<"\"\"">>, <<"\"xyzzy\"">> >>
        ELSE ReferenceRuleHolds

\* &String has been synthesized, each candidate behind a &.
C10_Witness ==
    /\ Returned
    /\ Declared = TypeReference(FALSE, Ident("String"))
    /\ result = << <<"&", "String", "::", "new", "(", ")">>,
                   <<"&", "\"xyzzy\"", ".", "into", "(", ")">> >>

\* An impl-trait node none of whose bounds is Iterator<Item = X>.
IsUnrecognizedOpaque(t) ==
    /\ t.tag = "ImplTrait"
    /\ \A i \in 1..Len(t.bounds) : ~IsIteratorItemBound(t.bounds[i])

\* The type nodes directly under a path: the types among the generic
\* arguments of its segments.
PathSubTypes(path) ==
    UNION {{GenericArgs(path.segments[i])[j].ty :
               j \in {j \in 1..Len(GenericArgs(path.segments[i])) :
                        GenericArgs(path.segments[i])[j].kind
                            \in {"Type", "AssocType"}}} :
           i \in 1..Len(path.segments)}

\* The type nodes directly under a type node.
SubTypes(t) ==
    CASE t.tag = "Path" -> PathSubTypes(t.path)
      [] t.tag \in {"Array", "Slice", "Reference"} -> {t.elem}
      [] t.tag = "Tuple" -> {t.elems[i] : i \in 1..Len(t.elems)}
      [] t.tag = "ImplTrait" ->
             UNION {PathSubTypes(t.bounds[i].path) :
                      i \in {i \in 1..Len(t.bounds) : t.bounds[i].kind = "Trait"}}
      [] OTHER -> {}

\* Whether a type tree holds a never node or an unrecognized opaque node.
RECURSIVE HasEmptyNode(_)
HasEmptyNode(t) ==
    \/ t.tag = "Never"
    \/ IsUnrecognizedOpaque(t)
    \/ \E sub \in SubTypes(t) : HasEmptyNode(sub)

\* C11: a type tree without a never node and without an impl-trait node that
\* lacks an Iterator<Item = X> bound gets at least one candidate, whatever
\* the error list, the empty one included; every rule gives a non-empty
\* output when the nodes directly under the type have non-empty candidate
\* sets; and without a declared return type the output is exactly ().
C11_EmptyOnlyFromNeverOrOpaque ==
    /\ (Returned /\ ~HasEmptyNode(Declared)) => result # <<>>
    /\ (/\ Returned
        /\ Declared.tag # "Never"
        /\ ~IsUnrecognizedOpaque(Declared)
        /\ \A sub \in SubTypes(Declared) :
              type_replacements(sub, error_exprs) # <<>>)
       => result # <<>>
    /\ (pc = "done" /\ return_type.kind = "Default")
       => result = << <<"(", ")">> >>

\* A Result naming no ok type has been synthesized with the empty error
\* list, and has its one candidate.
C11_Witness ==
    /\ Returned
    /\ Declared = Qualified("fmt", "Result", NoArguments)
    /\ error_exprs = <<>>
    /\ result = << <<"Ok", "(", "Default", "::", "default", "(", ")", ")">> >>

(***************************************************************************)
(* Claims about Shard.                                                     *)
(***************************************************************************)
\* The zero-based positions of a list.
Positions(list) == [j \in 1..Len(list) |-> j - 1]

\* C6: select on a shard with 0 <= k < n returns the elements at the
\* zero-based positions i with i mod n = k, in their order (1/4 of 0..10 is
\* 1, 5, 9); so the shards 0..n-1 of one n select disjoint sub-lists that
\* cover every mutant exactly once.
C6_SelectEveryNth ==
    shard_pc = "selected" =>
        LET k == parsed.shard.k
            n == parsed.shard.n
            mine == {i \in 0..(Len(mutants) - 1) : i % n = k}
            parts == [kk \in 0..(n - 1) |->
                        select([k |-> kk, n |-> n], Positions(mutants))]
        IN  /\ 0 <= k /\ k < n
            /\ Len(selected) = Cardinality(mine)
            /\ \A j \in 1..Len(selected) :
                  /\ k + (j - 1) * n \in mine
                  /\ selected[j] = mutants[k + (j - 1) * n + 1]
            \* cover: every position is in the part of its residue
            /\ \A i \in 0..(Len(mutants) - 1) :
                  \E j \in 1..Len(parts[i % n]) : parts[i % n][j] = i
            \* disjoint, and once: a part holds positions of its own residue
            \* only, each of them one time
            /\ \A kk \in 0..(n - 1) :
                  /\ \A j \in 1..Len(parts[kk]) :
                        /\ parts[kk][j] \in 0..(Len(mutants) - 1)
                        /\ parts[kk][j] % n = kk
                  /\ \A j1, j2 \in 1..Len(parts[kk]) :
                        parts[kk][j1] = parts[kk][j2] => j1 = j2
            /\ (k = 1 /\ n = 4 /\ mutants = [j \in 1..10 |-> j - 1])
               => selected = <<1, 5, 9>>

\* Shard 1/4 has selected from the ten mutants 0..10.
C6_Witness ==
    /\ shard_pc = "selected"
    /\ parsed.shard = [k |-> 1, n |-> 4]
    /\ Len(mutants) = 10
    /\ selected = <<1, 5, 9>>

\* An unsigned decimal numeral: digits, behind at most one +.
IsNumeral(q) ==
    LET body == IF q # <<>> /\ q[1] = "+" THEN Tail(q) ELSE q IN
    body # <<>> /\ \A i \in 1..Len(body) : body[i] \in Digits

\* The number a numeral denotes.
RECURSIVE NumeralValue(_)
NumeralValue(q) ==
    IF q = <<>> \/ q = <<"+">> THEN 0
    ELSE NumeralValue(SubSeq(q, 1, Len(q) - 1)) * 10 + DigitValue(q[Len(q)])

\* The descriptor has a slash; what is before the first one, and what after.
HasSlash == \E i \in 1..Len(s) : s[i] = "/"
FirstSlash == CHOOSE i \in 1..Len(s) : s[i] = "/" /\ \A j \in 1..(i - 1) : s[j] # "/"
KPart == SubSeq(s, 1, FirstSlash - 1)
NPart == SubSeq(s, FirstSlash + 1, Len(s))

\* C7: from_str returns a Shard only for a string k/n whose k and n parse as
\* unsigned integers with k < n, and then that very Shard (so 0 <= k < n and
\* n > 0); a string without / fails with "shard must be k/n", a k or n that
\* is no number fails, and k >= n (n = 0 too) fails with "shard k must be
\* less than n"; a failure produces no Shard, and nothing is selected with it.
C7_FromStrValidates ==
    shard_pc # "start" =>
        LET wellFormed == HasSlash /\ IsNumeral(KPart) /\ IsNumeral(NPart) IN
        /\ parsed.ok <=> (wellFormed /\ NumeralValue(KPart) < NumeralValue(NPart))
        /\ parsed.ok =>
              /\ parsed.shard = [k |-> NumeralValue(KPart), n |-> NumeralValue(NPart)]
              /\ 0 <= parsed.shard.k
              /\ parsed.shard.k < parsed.shard.n
              /\ parsed.shard.n > 0
        /\ ~HasSlash => parsed = Err("shard must be k/n")
        /\ (HasSlash /\ ~wellFormed) =>
              /\ ~parsed.ok
              /\ parsed.err \in {"shard k", "shard n"}
              /\ parsed.err = "shard k" <=> ~IsNumeral(KPart)
        /\ (wellFormed /\ NumeralValue(KPart) >= NumeralValue(NPart)) =>
              parsed = Err("shard k must be less than n")
        /\ ~parsed.ok => (DOMAIN parsed = {"ok", "err"} /\ shard_pc # "selected")
        /\ s = <<"2", "/", "5">> => parsed = Ok([k |-> 2, n |-> 5])
        /\ s = <<"5", "/", "2">> => parsed = Err("shard k must be less than n")

\* The descriptor 2/0 has been refused.
C7_Witness ==
    /\ shard_pc = "parsed"
    /\ s = <<"2", "/", "0">>
    /\ parsed = Err("shard k must be less than n")

====
